---- MODULE Spec2Model ----
(***************************************************************************)
(* Model of memo-app/src/App.jsx: the App component's state (memos,        *)
(* loading, search, isModalOpen, editingMemo), the MemoModal's submit,     *)
(* the four asynchronous store operations (fetchMemos, handleCreateMemo,   *)
(* handleUpdateMemo, handleDeleteMemo) with their requests in flight, the  *)
(* external memos table they talk to, and the derived filteredMemos view.  *)
(*                                                                         *)
(* Text is a sequence of one-character strings, so that trim, toLowerCase  *)
(* and includes are computed character by character.                       *)
(***************************************************************************)
EXTENDS Integers, Sequences, FiniteSets, TLC

VARIABLES
    memos,        \* App state: the in-memory list, a sequence of memo records
    loading,      \* App state: the loading flag
    search,       \* App state: the search text
    isModalOpen,  \* App state: whether the MemoModal is mounted
    editingMemo,  \* App state: the memo being edited, by its id; 0 for null
    reqs,         \* the store requests in flight, each with its answer once served
    store,        \* the external memos table: a set of memo records
    nextId,       \* the external store's id / created_at generator
    now,          \* the client clock, which ticks at every request the user issues
    errorLogged,  \* whether console.error has been called
    last          \* the handler step that was taken last

vars == <<memos, loading, search, isModalOpen, editingMemo, reqs, store, nextId, now, errorLogged, last>>

----------------------------------------------------------------------------
(* Bounds *)

\* the number of create, update and delete requests the user gets to issue
MaxRequests == 2

MaxList == 2

MaxSearchLen == 2

----------------------------------------------------------------------------
(* Text *)

Whitespace == {" "}

Alphabet == {" ", "a", "A", "b", "B"}

RECURSIVE TrimStart(_)
TrimStart(s) ==
    IF s # <<>> /\ Head(s) \in Whitespace THEN TrimStart(Tail(s)) ELSE s

RECURSIVE TrimEnd(_)
TrimEnd(s) ==
    IF s # <<>> /\ s[Len(s)] \in Whitespace
    THEN TrimEnd(SubSeq(s, 1, Len(s) - 1))
    ELSE s

Trim(s) == TrimEnd(TrimStart(s))

LowerChar(c) ==
    CASE c = "A" -> "a"
      [] c = "B" -> "b"
      [] OTHER -> c

ToLowerCase(s) == [i \in 1..Len(s) |-> LowerChar(s[i])]

Includes(s, sub) ==
    \E k \in 0..(Len(s) - Len(sub)) : SubSeq(s, k + 1, k + Len(sub)) = sub

RECURSIVE StringsOfLen(_)
StringsOfLen(n) ==
    IF n = 0 THEN {<<>>}
    ELSE {Append(s, c) : s \in StringsOfLen(n - 1), c \in Alphabet}

StringsUpTo(n) == UNION {StringsOfLen(k) : k \in 0..n}

----------------------------------------------------------------------------
(* Memo records *)

NoMemo == [id |-> 0, title |-> <<>>, content |-> <<>>, created_at |-> 0,
           updated_at |-> 0]

Ids(list) == {list[i].id : i \in 1..Len(list)}


NoEvent == [op |-> "none", ok |-> TRUE, id |-> 0, title |-> <<>>,
            data |-> NoMemo]

Event(op, ok, id, title, data) ==
    [op |-> op, ok |-> ok, id |-> id, title |-> title, data |-> data]

Request(kind, id, title, content, updated_at) ==
    [kind |-> kind, id |-> id, title |-> title, content |-> content,
     updated_at |-> updated_at, phase |-> "sent", data |-> NoMemo,
     rows |-> <<>>]

RemoveAt(seq, i) == SubSeq(seq, 1, i - 1) \o SubSeq(seq, i + 1, Len(seq))

Answer(i, phase, data, rows) ==
    [reqs EXCEPT ![i].phase = phase, ![i].data = data, ![i].rows = rows]

----------------------------------------------------------------------------
(* The derived view: filteredMemos *)

filteredMemos_CaseSensitive ==
    IF Trim(search) = <<>> THEN memos
    ELSE SelectSeq(memos, LAMBDA m :
            \/ Includes(ToLowerCase(m.title), search)
            \/ Includes(ToLowerCase(m.content), search))

filteredMemos ==
    IF Trim(search) = <<>> THEN memos
    ELSE LET lower == ToLowerCase(search)
         IN  SelectSeq(memos, LAMBDA m :
                \/ Includes(ToLowerCase(m.title), lower)
                \/ Includes(ToLowerCase(m.content), lower))

\* the memo cards on screen: none while the loading placeholder is shown
Cards == IF loading THEN {} ELSE {filteredMemos[i] : i \in 1..Len(filteredMemos)}

----------------------------------------------------------------------------
(* The external store: the memos table behind supabase.from('memos') *)

\* while a call is being served the client's state stays as it is
Awaiting ==
    /\ last' = NoEvent
    /\ UNCHANGED <<memos, loading, search, isModalOpen, editingMemo, now,
                   errorLogged>>

RECURSIVE OrderByCreatedAtDesc(_)
OrderByCreatedAtDesc(rowset) ==
    IF rowset = {} THEN <<>>
    ELSE LET newest == CHOOSE m \in rowset :
                         \A o \in rowset : o.created_at <= m.created_at
         IN  <<newest>> \o OrderByCreatedAtDesc(rowset \ {newest})

\* select('*').order('created_at', {ascending: false})
ServeSelect(i) ==
    /\ reqs[i].kind = "load" /\ reqs[i].phase = "sent"
    /\ reqs' = Answer(i, "ok", NoMemo, OrderByCreatedAtDesc(store))
    /\ UNCHANGED <<store, nextId>>
    /\ Awaiting

\* insert({title, content}).select().single()
ServeInsert(i) ==
    /\ reqs[i].kind = "create" /\ reqs[i].phase = "sent"
    /\ LET row == [id |-> nextId, title |-> reqs[i].title,
                   content |-> reqs[i].content, created_at |-> nextId,
                   updated_at |-> 0]
       IN  /\ store' = store \cup {row}
           /\ nextId' = nextId + 1
           /\ reqs' = Answer(i, "ok", row, <<>>)
    /\ Awaiting

\* update({title, content, updated_at}).eq('id', id).select().single():
\* .single() is an error when no row matches
ServeUpdate(i) ==
    /\ reqs[i].kind = "update" /\ reqs[i].phase = "sent"
    /\ IF \E m \in store : m.id = reqs[i].id
       THEN LET old == CHOOSE m \in store : m.id = reqs[i].id
                row == [old EXCEPT !.title = reqs[i].title,
                                   !.content = reqs[i].content,
                                   !.updated_at = reqs[i].updated_at]
            IN  /\ store' = (store \ {old}) \cup {row}
                /\ reqs' = Answer(i, "ok", row, <<>>)
       ELSE /\ store' = store
            /\ reqs' = Answer(i, "error", NoMemo, <<>>)
    /\ UNCHANGED nextId
    /\ Awaiting

\* delete().eq('id', id): deleting no row is not an error
ServeDelete(i) ==
    /\ reqs[i].kind = "delete" /\ reqs[i].phase = "sent"
    /\ store' = {m \in store : m.id # reqs[i].id}
    /\ reqs' = Answer(i, "ok", NoMemo, <<>>)
    /\ UNCHANGED nextId
    /\ Awaiting

\* any call may come back with { error } and no effect on the table
ServeError(i) ==
    /\ reqs[i].phase = "sent"
    /\ reqs' = Answer(i, "error", NoMemo, <<>>)
    /\ UNCHANGED <<store, nextId>>
    /\ Awaiting

----------------------------------------------------------------------------
(* What the user types *)

TitleInputs == {<<>>, <<" ">>, <<" ", "b", " ">>}

ContentInputs == {<<" ", "a">>}

SearchInputs == {<<>>, <<"B">>}

\* a memo left in the table by an earlier session
SeedMemo == [id |-> 1, title |-> <<"a">>, content |-> <<>>, created_at |-> 1,
             updated_at |-> 0]

----------------------------------------------------------------------------
(* App: state after construction and the mount effect, which calls         *)
(* fetchMemos: loading is set and the select request is in flight          *)

Init ==
    /\ memos = <<>>
    /\ loading = TRUE
    /\ search = <<>>
    /\ isModalOpen = FALSE
    /\ editingMemo = 0
    /\ reqs = <<Request("load", 0, <<>>, <<>>, 0)>>
    /\ store \in {{}, {SeedMemo}}
    /\ nextId = Cardinality(store) + 1
    /\ now = 0
    /\ errorLogged = FALSE
    /\ last = NoEvent


Failed(r) == r.phase = "error"

(* fetchMemos, after the await *)

fetchMemosResult_IgnoreError(prev, r) == r.rows

fetchMemosResult(prev, r) == IF Failed(r) THEN prev ELSE r.rows

fetchMemosResume(i) ==
    /\ reqs[i].kind = "load" /\ reqs[i].phase # "sent"
    /\ memos' = fetchMemosResult(memos, reqs[i])
    /\ loading' = FALSE
    /\ errorLogged' = (errorLogged \/ Failed(reqs[i]))
    /\ reqs' = RemoveAt(reqs, i)
    /\ last' = Event("fetchMemos", ~Failed(reqs[i]), 0, <<>>, NoMemo)
    /\ UNCHANGED <<search, isModalOpen, editingMemo, store,
                   nextId, now>>

\* the handler has returned: what is left of the call is onSubmit, to be
\* resumed a microtask later with closeModal still to run
Returned(r) == [Request("onSubmit", 0, <<>>, <<>>, 0) EXCEPT !.phase = r.phase]

(* handleCreateMemo, after the await *)

handleCreateMemoResult_Append(prev, r) ==
    IF Failed(r) THEN prev ELSE Append(prev, r.data)

handleCreateMemoResult(prev, r) ==
    IF Failed(r) THEN prev ELSE <<r.data>> \o prev

handleCreateMemoResume(i) ==
    /\ reqs[i].kind = "create" /\ reqs[i].phase # "sent"
    /\ memos' = handleCreateMemoResult(memos, reqs[i])
    /\ errorLogged' = (errorLogged \/ Failed(reqs[i]))
    /\ reqs' = [reqs EXCEPT ![i] = Returned(reqs[i])]
    /\ last' = Event("handleCreateMemo", ~Failed(reqs[i]), 0, reqs[i].title,
                     reqs[i].data)
    /\ UNCHANGED <<loading, search, isModalOpen, editingMemo, store, nextId,
                   now>>

(* handleUpdateMemo, after the await *)

handleUpdateMemoResult_Merge(prev, r) ==
    IF Failed(r) THEN prev
    ELSE [k \in 1..Len(prev) |->
            IF prev[k].id = r.id
            THEN [prev[k] EXCEPT !.title = r.title, !.content = r.content]
            ELSE prev[k]]

handleUpdateMemoResult(prev, r) ==
    IF Failed(r) THEN prev
    ELSE [k \in 1..Len(prev) |-> IF prev[k].id = r.id THEN r.data ELSE prev[k]]

handleUpdateMemoResume(i) ==
    /\ reqs[i].kind = "update" /\ reqs[i].phase # "sent"
    /\ memos' = handleUpdateMemoResult(memos, reqs[i])
    /\ errorLogged' = (errorLogged \/ Failed(reqs[i]))
    /\ reqs' = [reqs EXCEPT ![i] = Returned(reqs[i])]
    /\ last' = Event("handleUpdateMemo", ~Failed(reqs[i]), reqs[i].id,
                     reqs[i].title, reqs[i].data)
    /\ UNCHANGED <<loading, search, isModalOpen, editingMemo, store, nextId,
                   now>>

(* onSubmit, after its await of the handler: closeModal, whatever the      *)
(* handler met                                                             *)

onSubmitResume(i) ==
    /\ reqs[i].kind = "onSubmit"
    /\ isModalOpen' = FALSE
    /\ reqs' = RemoveAt(reqs, i)
    /\ last' = Event("onSubmit", ~Failed(reqs[i]), 0, <<>>, NoMemo)
    /\ UNCHANGED <<memos, loading, search, editingMemo, store, nextId, now,
                   errorLogged>>

(* handleDeleteMemo, after the await *)

handleDeleteMemoResult(prev, r) ==
    IF Failed(r) THEN prev ELSE SelectSeq(prev, LAMBDA m : m.id # r.id)

handleDeleteMemoResume(i) ==
    /\ reqs[i].kind = "delete" /\ reqs[i].phase # "sent"
    /\ memos' = handleDeleteMemoResult(memos, reqs[i])
    /\ errorLogged' = (errorLogged \/ Failed(reqs[i]))
    /\ reqs' = RemoveAt(reqs, i)
    /\ last' = Event("handleDeleteMemo", ~Failed(reqs[i]), reqs[i].id, <<>>,
                     NoMemo)
    /\ UNCHANGED <<loading, search, isModalOpen, editingMemo, store, nextId, now>>

----------------------------------------------------------------------------
(* The modal: open, close, submit.  The form's fields are the inputs of    *)
(* handleSubmit: what the user has typed by the time of the submit.        *)

\* a user event is a task of its own: it starts only once the continuations
\* queued as microtasks have run
NoMicrotask == \A i \in 1..Len(reqs) : reqs[i].kind # "onSubmit"

openNewMemoModal ==
    /\ NoMicrotask
    /\ editingMemo' = 0
    /\ isModalOpen' = TRUE
    /\ last' = NoEvent
    /\ UNCHANGED <<memos, loading, search, reqs, store, nextId, now,
                   errorLogged>>

openEditMemoModal(memo) ==
    /\ NoMicrotask
    /\ memo \in Cards
    /\ editingMemo' = memo.id
    /\ isModalOpen' = TRUE
    /\ last' = NoEvent
    /\ UNCHANGED <<memos, loading, search, reqs, store, nextId, now,
                   errorLogged>>

closeModal ==
    /\ NoMicrotask
    /\ isModalOpen
    /\ isModalOpen' = FALSE
    /\ last' = NoEvent
    /\ UNCHANGED <<memos, loading, search, editingMemo, reqs, store, nextId,
                   now, errorLogged>>

setSearch(s) ==
    /\ NoMicrotask
    /\ search' = s
    /\ last' = NoEvent
    /\ UNCHANGED <<memos, loading, isModalOpen, editingMemo, reqs, store,
                   nextId, now, errorLogged>>

TitleIsValid_NoTrim(title) == title # <<>>

TitleIsValid(title) == Trim(title) # <<>>

\* handleSubmit with a blank title: the alert, and nothing else
handleSubmitRejected(title, content) ==
    /\ NoMicrotask
    /\ isModalOpen
    /\ ~TitleIsValid(title)
    /\ last' = Event("handleSubmit", FALSE, editingMemo, title, NoMemo)
    /\ UNCHANGED <<memos, loading, search, isModalOpen, editingMemo, reqs,
                   store, nextId, now, errorLogged>>

\* handleSubmit -> onSubmit -> handleCreateMemo up to its await
handleSubmitCreate(title, content) ==
    /\ NoMicrotask
    /\ isModalOpen
    /\ TitleIsValid(title)
    /\ editingMemo = 0
    /\ now < MaxRequests
    /\ now' = now + 1
    /\ reqs' = Append(reqs, Request("create", 0, Trim(title), Trim(content), 0))
    /\ last' = Event("handleSubmit", TRUE, 0, title, NoMemo)
    /\ UNCHANGED <<memos, loading, search, isModalOpen, editingMemo, store,
                   nextId, errorLogged>>

\* handleSubmit -> onSubmit -> handleUpdateMemo up to its await; new Date()
\* reads the client clock
handleSubmitUpdate(title, content) ==
    /\ NoMicrotask
    /\ isModalOpen
    /\ TitleIsValid(title)
    /\ editingMemo # 0
    /\ now < MaxRequests
    /\ now' = now + 1
    /\ reqs' = Append(reqs, Request("update", editingMemo, Trim(title),
                                    Trim(content), now'))
    /\ last' = Event("handleSubmit", TRUE, editingMemo, title, NoMemo)
    /\ UNCHANGED <<memos, loading, search, isModalOpen, editingMemo, store,
                   nextId, errorLogged>>

(* handleDeleteMemo up to its await *)

handleDeleteMemoDeclined(id) ==
    /\ NoMicrotask
    /\ \E m \in Cards : m.id = id
    /\ last' = Event("confirm", FALSE, 0, <<>>, NoMemo)
    /\ UNCHANGED <<memos, loading, search, isModalOpen, editingMemo, reqs,
                   store, nextId, now, errorLogged>>

handleDeleteMemoCall(id) ==
    /\ NoMicrotask
    /\ \E m \in Cards : m.id = id
    /\ now < MaxRequests
    /\ now' = now + 1
    /\ reqs' = Append(reqs, Request("delete", id, <<>>, <<>>, 0))
    /\ last' = Event("confirm", TRUE, id, <<>>, NoMemo)
    /\ UNCHANGED <<memos, loading, search, isModalOpen, editingMemo, store,
                   nextId, errorLogged>>

----------------------------------------------------------------------------

Next ==
    \/ \E i \in 1..Len(reqs) : ServeSelect(i)
    \/ \E i \in 1..Len(reqs) : ServeInsert(i)
    \/ \E i \in 1..Len(reqs) : ServeUpdate(i)
    \/ \E i \in 1..Len(reqs) : ServeDelete(i)
    \/ \E i \in 1..Len(reqs) : ServeError(i)
    \/ \E i \in 1..Len(reqs) : fetchMemosResume(i)
    \/ \E i \in 1..Len(reqs) : handleCreateMemoResume(i)
    \/ \E i \in 1..Len(reqs) : handleUpdateMemoResume(i)
    \/ \E i \in 1..Len(reqs) : onSubmitResume(i)
    \/ \E i \in 1..Len(reqs) : handleDeleteMemoResume(i)
    \/ openNewMemoModal
    \/ \E m \in Cards : openEditMemoModal(m)
    \/ closeModal
    \/ \E s \in SearchInputs : setSearch(s)
    \/ \E t \in TitleInputs, c \in ContentInputs : handleSubmitRejected(t, c)
    \/ \E t \in TitleInputs, c \in ContentInputs : handleSubmitCreate(t, c)
    \/ \E t \in TitleInputs, c \in ContentInputs : handleSubmitUpdate(t, c)
    \/ \E id \in Ids(memos) : handleDeleteMemoDeclined(id)
    \/ \E id \in Ids(memos) : handleDeleteMemoCall(id)

Spec == Init /\ [][Next]_vars

----------------------------------------------------------------------------
(* The filter on its own: any loaded list, then any search text typed *)

TitlePool == {<<"a">>, <<"A", "b">>, <<"b", " ", "a">>, <<"B">>}

ContentPool == {<<>>, <<"a", "B">>, <<"b", "b">>}

\* a loaded list of n memos, newest first
LoadedList(n, f) ==
    [i \in 1..n |-> [id |-> n - i + 1, title |-> f[i][1], content |-> f[i][2],
                     created_at |-> n - i + 1, updated_at |-> 0]]

FilterLists ==
    UNION {{LoadedList(n, f) : f \in [1..n -> TitlePool \X ContentPool]} :
              n \in 0..MaxList}

FilterInit ==
    /\ memos \in FilterLists
    /\ loading = FALSE
    /\ search = <<>>
    /\ isModalOpen = FALSE
    /\ editingMemo = 0
    /\ reqs = <<>>
    /\ store = {memos[i] : i \in 1..Len(memos)}
    /\ nextId = Len(memos) + 1
    /\ now = 0
    /\ errorLogged = FALSE
    /\ last = NoEvent

FilterNext == \E s \in StringsUpTo(MaxSearchLen) : setSearch(s)

FilterSpec == FilterInit /\ [][FilterNext]_vars

----------------------------------------------------------------------------
(* Properties *)

Resumed(op) == last'.op = op
Succeeded(op) == last'.op = op /\ last'.ok
FailedAt(op) == last'.op = op /\ ~last'.ok

StoreOps ==
    {"fetchMemos", "handleCreateMemo", "handleUpdateMemo", "handleDeleteMemo"}

AllWhitespace(s) == \A i \in 1..Len(s) : s[i] \in Whitespace

\* C1: when the store answers a load, create, update or delete with an
\* error, the step that handles the answer leaves the in-memory list exactly
\* as it was.
FailureLeavesList ==
    [][\A op \in StoreOps : FailedAt(op) => memos' = memos]_vars

\* a load has failed while the list already held a memo
FailureLeavesListWitness ==
    /\ last.op = "fetchMemos" /\ ~last.ok
    /\ memos # <<>>

\* C2: a successful create makes the list one longer, puts the record the
\* store returned first and keeps the previous elements behind it, in order.
CreatePrepends ==
    [][Succeeded("handleCreateMemo") =>
         /\ Len(memos') = Len(memos) + 1
         /\ memos'[1] = last'.data
         /\ last'.data.id # 0
         /\ \A k \in 1..Len(memos) : memos'[k + 1] = memos[k]]_vars

\* a create has succeeded on a list that held two memos already
CreatePrependsWitness ==
    /\ last.op = "handleCreateMemo" /\ last.ok
    /\ Len(memos) = 3
    /\ memos[1] = last.data

\* C3: a successful update keeps the list's length, puts the record the store
\* returned (with the submitted title and the new updated_at) where the
\* memo with that id was, and leaves every other element as and where it was.
UpdateReplaces ==
    [][Succeeded("handleUpdateMemo") =>
         /\ Len(memos') = Len(memos)
         /\ last'.data.id = last'.id
         /\ last'.data.title = last'.title
         /\ last'.data.updated_at > 0
         /\ \A k \in 1..Len(memos) :
               memos'[k] = IF memos[k].id = last'.id THEN last'.data
                           ELSE memos[k]]_vars

\* an update has succeeded on a list of two memos, one of them the updated one
UpdateReplacesWitness ==
    /\ last.op = "handleUpdateMemo" /\ last.ok
    /\ Len(memos) = 2
    /\ memos[2] = last.data
    /\ memos[1].id # last.id

\* C4: a successful delete leaves no element with that id, makes the list
\* shorter by exactly one (by zero if the id was not in it) and keeps the
\* other elements in order.
DeleteRemovesOne ==
    [][Succeeded("handleDeleteMemo") =>
         /\ \A k \in 1..Len(memos') : memos'[k].id # last'.id
         /\ Len(memos') =
               Len(memos) - (IF last'.id \in Ids(memos) THEN 1 ELSE 0)
         /\ memos' = SelectSeq(memos, LAMBDA m : m.id # last'.id)]_vars

\* C5: the in-memory list holds at most one entry per id.
UniqueIds ==
    \A i, j \in 1..Len(memos) : memos[i].id = memos[j].id => i = j

\* C6: a submit whose title is empty or all whitespace issues no request,
\* changes neither the list nor the table, and leaves the modal open.
TitleValidation ==
    [][(Resumed("handleSubmit") /\ AllWhitespace(last'.title)) =>
         /\ reqs' = reqs
         /\ memos' = memos
         /\ store' = store
         /\ isModalOpen /\ isModalOpen']_vars

\* a title of one blank has been submitted and turned down, with a memo listed
TitleValidationWitness ==
    /\ last.op = "handleSubmit" /\ ~last.ok
    /\ last.title = <<" ">>
    /\ isModalOpen
    /\ memos # <<>>

\* C7: when a create or update has failed at the store, onSubmit leaves the
\* modal as it was: open if it was open.
FailureKeepsModalOpen ==
    [][(last'.op = "onSubmit" /\ ~last'.ok) =>
         isModalOpen' = isModalOpen]_vars

\* s occurs in t when upper and lower case are taken as the same letter
SameLetter(c, d) ==
    \/ c = d
    \/ {c, d} = {"a", "A"}
    \/ {c, d} = {"b", "B"}

ContainsIgnoringCase(t, s) ==
    \E k \in 0..(Len(t) - Len(s)) :
        \A j \in 1..Len(s) : SameLetter(t[k + j], s[j])

Matches(m, s) ==
    ContainsIgnoringCase(m.title, s) \/ ContainsIgnoringCase(m.content, s)

FilterView ==
    filteredMemos = IF AllWhitespace(search) THEN memos
                    ELSE SelectSeq(memos, LAMBDA m : Matches(m, search))

\* C8: the view is the list itself when the search text is empty or all
\* whitespace, otherwise the memos whose title or content contains the
\* search text, case ignored, in the list's order; typing a search text
\* leaves the list as it was.
FilterCorrect ==
    /\ []FilterView
    /\ [][search' # search => memos' = memos]_vars

\* a search text with a capital letter narrows a list of two to its second memo
FilterCorrectWitness ==
    /\ Len(memos) = 2
    /\ \E i \in 1..Len(search) : search[i] = "B"
    /\ filteredMemos = <<memos[2]>>
    /\ ~Includes(memos[2].title, search)
    /\ ~Includes(memos[2].content, search)

\* C9: the in-memory list is sorted by created_at, newest first.
NewestFirst ==
    \A i, j \in 1..Len(memos) :
        i < j => memos[i].created_at >= memos[j].created_at

\* C10: with no request in flight and no failure so far, the list holds
\* exactly the ids of the table's rows.
QuiescentConsistent ==
    (reqs = <<>> /\ ~errorLogged) =>
        Ids(memos) = {m.id : m \in store}

====
